---- MODULE Spec2Model ----
(***************************************************************************)
(* rancher-upgrade: the dispatcher / worker pool (upgradeServices,         *)
(* upgradeServicesConcurrent), the per-service upgrade controller          *)
(* (upgradeServiceImage), the action gate (actionAvailable) and the two    *)
(* upgrade steps (doUpgrade, doFinishUpgrade) of src/rancher-upgrade.go,   *)
(* with the error values of src/errors.go.                                 *)
(*                                                                         *)
(* Strings that the program takes apart or concatenates (service names,    *)
(* the image prefix, the tag, the image reference) are sequences of        *)
(* one-character strings.  The remote orchestration API is the             *)
(* environment: every service it hosts is in one of three lifecycle states *)
(* that decide its action set, and other users of the API may move a       *)
(* service along its lifecycle at any time.                                *)
(***************************************************************************)
EXTENDS Integers, Sequences, FiniteSets, Bags, TLC

\* ------------------------------------------------------------------ bounds
\* the longest -services list, the largest -parallelism, and the largest
\* product of the two (workers times jobs) of a run
MaxJobs == 2
MaxPar == 2
MaxLoad == 4

\* ------------------------------------------------------------- string data
Str_docker == <<"d", "o", "c", "k", "e", "r", ":">>
Colon == ":"

svcA == <<"s", "A">>
svcB == <<"s", "B">>
svcC == <<"s", "C">>
Names == {svcA, svcB, svcC}

\* the services the remote API lists: svcC is not hosted
Listing == << [Name |-> svcA, Id |-> "1s1"], [Name |-> svcB, Id |-> "1s2"] >>
Ids == {Listing[n].Id : n \in DOMAIN Listing}

\* the -image-prefix and -tag flags of a run: a registry prefix with a bare
\* tag, and the default (empty) prefix with a tag that already has its colon
ImageFlags == { [prefix |-> <<"r", "/">>, tag |-> <<"v", "3">>],
                [prefix |-> << >>, tag |-> <<":", "v", "3">>] }
ParValues == (0 - 1) .. MaxPar
\* the -services lists of a run.  svcA and svcB are both hosted and differ in
\* name only, so of two lists that differ by exchanging them only the one
\* that names svcA first is taken.
ServiceLists ==
    { sl \in UNION { [1..n -> Names] : n \in 1..MaxJobs } :
         \A j \in DOMAIN sl :
            sl[j] = svcB => \E h \in 1..(j - 1) : sl[h] = svcA }

\* one worker more than MaxPar can be named, so that a spawn loop that runs
\* once too often has a worker to start
Workers == 1 .. (MaxPar + 1)

VARIABLES
    flags,        \* the parsed command line: services, tag, prefix, parallelism
    IMAGETAG,     \* var IMAGETAG
    SERVICEMAP,   \* var SERVICEMAP
    mainpc,       \* where the main goroutine is
    serviceChan,  \* the job queue of upgradeServices: buffer, capacity, closed
    k,            \* index of the enqueue loop
    i,            \* index of the spawn loop
    WG,           \* var WG: the wait group's counter
    wpc,          \* where each worker goroutine is
    ctl,          \* the controller (upgradeServiceImage call) each worker runs
    outcomes,     \* per worker, the controllers it has run to their end
    remote        \* the remote API's lifecycle state of every hosted service

vars == << flags, IMAGETAG, SERVICEMAP, mainpc, serviceChan, k, i, WG, wpc, ctl,
           outcomes, remote >>

\* ------------------------------------------------------------ error values
Nil == [type |-> "nil"]

actionAvailableError(action, service) ==
    [type |-> "actionAvailableError", Action |-> action, Service |-> service]

upgradeError(action, service, err) ==
    [type |-> "upgradeError", Action |-> action, Service |-> service, Err |-> err]

\* what the rancher client returns when a call fails
ErrClient == [type |-> "remoteError", msg |-> "no client"]
ErrFetch == [type |-> "remoteError", msg |-> "fetch failed"]
ErrAction == [type |-> "remoteError", msg |-> "action failed"]

\* doUpgrade (line 127) and doFinishUpgrade (line 103) build an
\* actionAvailableError from an identifier `action` that neither declares;
\* both lines follow a gate check that has already returned for a name the
\* service map does not resolve, so no run reaches them
UnboundAction == "action"

\* ------------------------------------------------------------- remote API
RemoteStates == {"active", "upgrading", "upgraded"}

\* s.Resource.Actions of a service in a lifecycle state
Actions(st) ==
    CASE st = "active" -> {"upgrade"}
      [] st = "upgrading" -> {"cancelupgrade"}
      [] st = "upgraded" -> {"finishupgrade", "rollback"}

\* --------------------------------------------------------- pure functions
\* strings.HasPrefix(tag, ":")
HasPrefix(s, c) == Len(s) > 0 /\ s[1] = c

\* faulty variant: the colon is added without the HasPrefix test
NormalizeTag_Always(tag) == <<Colon>> \o tag
\* init: if !strings.HasPrefix(tag, ":") { tag = ":" + tag }
NormalizeTag(tag) == IF HasPrefix(tag, Colon) THEN tag ELSE <<Colon>> \o tag

\* createServiceMap: for _, service := range Data { serviceMap[Name] = Id }
RECURSIVE BuildMap(_, _)
BuildMap(data, m) ==
    IF data = << >> THEN m
    ELSE LET e == Head(data)
         IN  BuildMap(Tail(data),
                      [n \in (DOMAIN m) \cup {e.Name} |->
                          IF n = e.Name THEN e.Id ELSE m[n]])

EmptyMap == [n \in {} |-> ""]

\* SERVICEMAP[service]: a Go map yields "" for a key it does not hold
MapGet(m, service) == IF service \in DOMAIN m THEN m[service] ELSE ""

\* client.Service.ById(id): the API holds no service with an unknown id
Hosted(id) == id \in Ids

\* faulty variant: the action set of the fetched service is not looked at
actionAvailable_AnyAction(action, service, clientOk, fetchOk, m, rem) ==
    IF ~clientOk THEN actionAvailableError(action, service)
    ELSE IF MapGet(m, service) = "" THEN actionAvailableError(action, service)
    ELSE IF ~fetchOk \/ ~Hosted(MapGet(m, service))
         THEN actionAvailableError(action, service)
    ELSE Nil

\* actionAvailable(action, service): the error it returns.  clientOk and
\* fetchOk say whether getNewClient and client.Service.ById succeed; rem is
\* the remote state the fetch reads.
actionAvailable(action, service, clientOk, fetchOk, m, rem) ==
    IF ~clientOk THEN actionAvailableError(action, service)
    ELSE IF MapGet(m, service) = "" THEN actionAvailableError(action, service)
    ELSE IF ~fetchOk \/ ~Hosted(MapGet(m, service))
         THEN actionAvailableError(action, service)
    ELSE IF action \notin Actions(rem[MapGet(m, service)])
         THEN actionAvailableError(action, service)
    ELSE Nil

\* whether that call of actionAvailable wrote log.Error (lines 75 and 83)
actionAvailableLogs(service, clientOk, fetchOk, m) ==
    \/ ~clientOk
    \/ clientOk /\ MapGet(m, service) # "" /\ (~fetchOk \/ ~Hosted(MapGet(m, service)))

\* upgradeServicesConcurrent: imageUuid := prefix + service + tag
ImageUuid(prefix, service, tag) == prefix \o service \o tag

\* doUpgrade: the InServiceStrategy it submits for an image
UpgradePayload(image) == [StartFirst |-> TRUE, ImageUuid |-> Str_docker \o image]

NoPayload == [StartFirst |-> FALSE, ImageUuid |-> << >>]

\* ------------------------------------------------------------ the channel
\* faulty variant: the channel is made without a buffer
MakeChan_Unbuffered(capacity) == [buf |-> << >>, cap |-> 0, closed |-> FALSE]
\* make(chan string, cap(services))
MakeChan(capacity) == [buf |-> << >>, cap |-> capacity, closed |-> FALSE]

\* serviceChan <- service can proceed
CanSend(ch) == ~ch.closed /\ Len(ch.buf) < ch.cap
ChanSend(ch, v) == [ch EXCEPT !.buf = Append(@, v)]

\* faulty variant: the channel is left open
CloseChan_Omitted(ch) == ch
\* close(serviceChan)
CloseChan(ch) == [ch EXCEPT !.closed = TRUE]

\* a receive of the for-range loop yields a value
CanRecv(ch) == ch.buf # << >>
\* the for-range loop ends: the channel is closed and drained
RangeEnds(ch) == ch.buf = << >> /\ ch.closed
\* faulty variant: a receive that leaves the value in the buffer
ChanRecv_Peek(ch) == ch
\* the channel after a receive
ChanRecv(ch) == [ch EXCEPT !.buf = Tail(@)]

\* ------------------------------------------------------------ controllers
\* the state of one call of upgradeServiceImage
\*   state         the controller state of the design
\*   gateErr       what line 55's actionAvailable("upgrade") returned
\*   upgradeErr    what doUpgrade returned
\*   finishErr     what doFinishUpgrade returned
\*   logged        the failure that ended the controller was written to the log
\*   payload       the upgrade specification submitted to ActionUpgrade
\*   beginCalls    client.Service.ActionUpgrade calls issued
\*   finishCalls   client.Service.ActionFinishupgrade calls issued
\*   lastGate      result of the latest actionAvailable("finishupgrade")
\*   pollResult    result of the latest check made by the loop of line 64
\*   gateAtFinish  lastGate when ActionFinishupgrade was issued
NewCtl(service, image) ==
    [service |-> service, image |-> image, state |-> "Idle",
     gateErr |-> Nil, upgradeErr |-> Nil, finishErr |-> Nil,
     logged |-> FALSE, payload |-> NoPayload,
     beginCalls |-> 0, finishCalls |-> 0,
     lastGate |-> "none", pollResult |-> "none",
     gateAtFinish |-> "none"]

NoCtl == [service |-> << >>, image |-> << >>, state |-> "None",
          gateErr |-> Nil, upgradeErr |-> Nil, finishErr |-> Nil,
          logged |-> FALSE, payload |-> NoPayload,
          beginCalls |-> 0, finishCalls |-> 0,
          lastGate |-> "none", pollResult |-> "none",
     gateAtFinish |-> "none"]

Terminal == {"Finished", "Aborted"}

\* ------------------------------------------------------------------- Init
\* the process has parsed its flags; init() and main() are still to run
Init ==
    /\ \E sl \in ServiceLists, im \in ImageFlags, par \in ParValues :
          /\ par * Len(sl) <= MaxLoad
          /\ flags = [services |-> sl, tag |-> im.tag, prefix |-> im.prefix,
                      parallelism |-> par]
    /\ IMAGETAG = << >>
    /\ SERVICEMAP = EmptyMap
    /\ mainpc = "init"
    /\ serviceChan = MakeChan(0)
    /\ k = 0
    /\ i = 0
    /\ WG = 0
    /\ wpc = [w \in Workers |-> "unborn"]
    /\ ctl = [w \in Workers |-> NoCtl]
    /\ outcomes = [w \in Workers |-> << >>]
    /\ remote = [id \in Ids |-> "active"]

\* --------------------------------------------------------- main goroutine
\* faulty variant: the error of createServiceMap is logged and main runs
AfterMapFailure_Continue == "main"
\* init() lines 170-172: log.Fatalf ends the process when createServiceMap
\* returned an error
AfterMapFailure == "fatal"

\* init(): normalise the tag, build the service map; log.Fatalf when
\* createServiceMap fails (getNewClient or client.Service.List)
InitFn ==
    /\ mainpc = "init"
    /\ IMAGETAG' = NormalizeTag(flags.tag)
    /\ \E ok \in BOOLEAN :
          IF ok
          THEN /\ SERVICEMAP' = BuildMap(Listing, EmptyMap)
               /\ mainpc' = "main"
          ELSE /\ SERVICEMAP' = SERVICEMAP
               /\ mainpc' = AfterMapFailure
    /\ UNCHANGED << flags, serviceChan, k, i, WG, wpc, ctl, outcomes, remote >>

\* main() calls upgradeServices, which makes the channel
Main ==
    /\ mainpc = "main"
    /\ serviceChan' = MakeChan(Len(flags.services))
    /\ k' = 1
    /\ mainpc' = "enqueue"
    /\ UNCHANGED << flags, IMAGETAG, SERVICEMAP, i, WG, wpc, ctl, outcomes, remote >>

\* for _, service := range services { serviceChan <- service }
Enqueue ==
    /\ mainpc = "enqueue"
    /\ k <= Len(flags.services)
    /\ CanSend(serviceChan)
    /\ serviceChan' = ChanSend(serviceChan, flags.services[k])
    /\ k' = k + 1
    /\ UNCHANGED << flags, IMAGETAG, SERVICEMAP, mainpc, i, WG, wpc, ctl, outcomes,
                    remote >>

\* close(serviceChan), after the last send
Close ==
    /\ mainpc = "enqueue"
    /\ k > Len(flags.services)
    /\ serviceChan' = CloseChan(serviceChan)
    /\ i' = 0
    /\ mainpc' = "spawn"
    /\ UNCHANGED << flags, IMAGETAG, SERVICEMAP, k, WG, wpc, ctl, outcomes, remote >>

\* faulty variant: one worker is started whatever the parallelism
SpawnMore_AtLeastOne(n, par) == n < par \/ n = 0
\* faulty variant: the loop runs once too often
SpawnMore_OffByOne(n, par) == n <= par
\* the condition of: for i := 0; i < *PARALLELISM; i++
SpawnMore(n, par) == n < par

\* WG.Add(1); go upgradeServicesConcurrent(prefix, tag, serviceChan)
Spawn ==
    /\ mainpc = "spawn"
    /\ SpawnMore(i, flags.parallelism)
    /\ WG' = WG + 1
    /\ wpc' = [wpc EXCEPT ![i + 1] = "range"]
    /\ i' = i + 1
    /\ UNCHANGED << flags, IMAGETAG, SERVICEMAP, mainpc, serviceChan, k, ctl,
                    outcomes, remote >>

SpawnDone ==
    /\ mainpc = "spawn"
    /\ ~SpawnMore(i, flags.parallelism)
    /\ mainpc' = "wait"
    /\ UNCHANGED << flags, IMAGETAG, SERVICEMAP, serviceChan, k, i, WG, wpc, ctl,
                    outcomes, remote >>

\* faulty variant: upgradeServices does not wait for the workers
WaitReturns_NoJoin(wg) == TRUE
\* WG.Wait() returns
WaitReturns(wg) == wg = 0

\* WG.Wait(); upgradeServices and main return, the process exits
Wait ==
    /\ mainpc = "wait"
    /\ WaitReturns(WG)
    /\ mainpc' = "returned"
    /\ UNCHANGED << flags, IMAGETAG, SERVICEMAP, serviceChan, k, i, WG, wpc, ctl,
                    outcomes, remote >>

\* the process is running: log.Fatalf and the return of main end it, and
\* with it every goroutine
Alive == mainpc \notin {"fatal", "returned"}

\* ------------------------------------------------------- worker goroutines
\* faulty variant: the worker returns after its first controller
AfterController_Return == "return"
\* where a worker goes when upgradeServiceImage returns: back to the
\* receive of for service := range serviceChan
AfterController == "range"

\* upgradeServiceImage returns with controller record c
EndJob(w, c) ==
    /\ outcomes' = [outcomes EXCEPT ![w] = Append(@, c)]
    /\ ctl' = [ctl EXCEPT ![w] = NoCtl]
    /\ wpc' = [wpc EXCEPT ![w] = AfterController]

\* for service := range serviceChan: a job is received; imageUuid is built
\* and upgradeServiceImage(service, imageUuid) is called
Receive(w) ==
    /\ Alive
    /\ wpc[w] = "range"
    /\ CanRecv(serviceChan)
    /\ LET service == Head(serviceChan.buf)
       IN  ctl' = [ctl EXCEPT ![w] =
                      NewCtl(service, ImageUuid(flags.prefix, service, IMAGETAG))]
    /\ serviceChan' = ChanRecv(serviceChan)
    /\ wpc' = [wpc EXCEPT ![w] = "checkUpgrade"]
    /\ UNCHANGED << flags, IMAGETAG, SERVICEMAP, mainpc, k, i, WG, outcomes, remote >>

\* the channel is closed and drained: the loop ends
RangeEnd(w) ==
    /\ Alive
    /\ wpc[w] = "range"
    /\ RangeEnds(serviceChan)
    /\ wpc' = [wpc EXCEPT ![w] = "return"]
    /\ UNCHANGED << flags, IMAGETAG, SERVICEMAP, mainpc, serviceChan, k, i, WG, ctl,
                    outcomes, remote >>

\* upgradeServicesConcurrent returns: the deferred WG.Done() runs
WorkerReturn(w) ==
    /\ Alive
    /\ wpc[w] = "return"
    /\ WG' = WG - 1
    /\ wpc' = [wpc EXCEPT ![w] = "exited"]
    /\ UNCHANGED << flags, IMAGETAG, SERVICEMAP, mainpc, serviceChan, k, i, ctl,
                    outcomes, remote >>

\* upgradeServiceImage line 55: actionAvailable("upgrade", serviceName);
\* on an error log.Error(err) and return
CheckUpgrade(w) ==
    /\ Alive
    /\ wpc[w] = "checkUpgrade"
    /\ \E clientOk, fetchOk \in BOOLEAN :
          LET c == ctl[w]
              err == actionAvailable("upgrade", c.service, clientOk, fetchOk,
                                     SERVICEMAP, remote)
          IN  IF err # Nil
              THEN EndJob(w, [c EXCEPT !.gateErr = err, !.logged = TRUE,
                                       !.state = "Aborted"])
              ELSE /\ ctl' = [ctl EXCEPT ![w] = [c EXCEPT !.state = "Upgrading"]]
                   /\ wpc' = [wpc EXCEPT ![w] = "doUpgrade"]
                   /\ UNCHANGED outcomes
    /\ UNCHANGED << flags, IMAGETAG, SERVICEMAP, mainpc, serviceChan, k, i, WG, remote >>

\* faulty variant: the error of doUpgrade is not looked at
UpgradeFailed_Ignored(err) == FALSE
\* upgradeServiceImage line 60: if err != nil
UpgradeFailed(err) == err # Nil

\* upgradeServiceImage lines 59-63: doUpgrade has returned err; on an error
\* log.Errorf and return, else go on to the finalize poll
AfterDoUpgrade(w, err) ==
    LET c == ctl[w]
    IN  IF UpgradeFailed(err)
        THEN EndJob(w, [c EXCEPT !.upgradeErr = err, !.logged = TRUE,
                                 !.state = "Aborted"])
        ELSE /\ ctl' = [ctl EXCEPT ![w] = [c EXCEPT !.upgradeErr = err,
                                                     !.state = "AwaitingFinish"]]
             /\ wpc' = [wpc EXCEPT ![w] = "poll"]
             /\ UNCHANGED outcomes

\* doUpgrade: the Action field of the upgradeError for a failed ActionUpgrade
UpgradeCallAction == "client.Service.ActionUpgrade"

\* faulty variant: the remote error is not wrapped
UpgradeCallError_NoCause(service, e) == upgradeError(UpgradeCallAction, service, Nil)
\* doUpgrade line 141: the error returned when ActionUpgrade failed with e
UpgradeCallError(service, e) == upgradeError(UpgradeCallAction, service, e)

\* doUpgrade lines 117-139: check the gate once more, get a client, fetch
\* the service, set the start-first strategy and the image, and issue
\* ActionUpgrade.  gateClientOk and gateFetchOk are the outcomes of the gate's
\* own client and fetch, clientOk and fetchOk those of lines 121 and 129.
DoUpgrade(w) ==
    /\ Alive
    /\ wpc[w] = "doUpgrade"
    /\ \E gateClientOk, gateFetchOk, clientOk, fetchOk \in BOOLEAN :
          LET c == ctl[w]
              gate == actionAvailable("upgrade", c.service, gateClientOk, gateFetchOk,
                                      SERVICEMAP, remote)
          IN  IF gate # Nil
              THEN AfterDoUpgrade(w, actionAvailableError("upgrade", c.service))
              ELSE IF ~clientOk
              THEN AfterDoUpgrade(w, upgradeError("getNewClient", c.service, ErrClient))
              ELSE IF MapGet(SERVICEMAP, c.service) = ""
              THEN AfterDoUpgrade(w, actionAvailableError(UnboundAction, c.service))
              ELSE IF ~fetchOk
              THEN AfterDoUpgrade(w, upgradeError("client.Service.ById", c.service,
                                                  ErrFetch))
              ELSE /\ ctl' = [ctl EXCEPT ![w] =
                                 [c EXCEPT !.payload = UpgradePayload(c.image),
                                           !.beginCalls = @ + 1]]
                   /\ wpc' = [wpc EXCEPT ![w] = "ActionUpgrade"]
                   /\ UNCHANGED outcomes
    /\ UNCHANGED << flags, IMAGETAG, SERVICEMAP, mainpc, serviceChan, k, i, WG, remote >>

\* client.Service.ActionUpgrade returns: the API starts the upgrade when the
\* action is available, or the call fails
ActionUpgradeReturn(w) ==
    /\ Alive
    /\ wpc[w] = "ActionUpgrade"
    /\ LET c == ctl[w]
           id == MapGet(SERVICEMAP, c.service)
       IN  \/ /\ "upgrade" \in Actions(remote[id])
              /\ remote' = [remote EXCEPT ![id] = "upgrading"]
              /\ AfterDoUpgrade(w, Nil)
           \/ /\ AfterDoUpgrade(w, UpgradeCallError(c.service, ErrAction))
              /\ UNCHANGED remote
    /\ UNCHANGED << flags, IMAGETAG, SERVICEMAP, mainpc, serviceChan, k, i, WG >>

GateResult(err) == IF err = Nil THEN "available" ELSE "unavailable"

\* faulty variant: the loop ends after one check, whatever it reported
PollAgain_Never(err) == FALSE
\* upgradeServiceImage line 64: the loop goes on while err != nil
PollAgain(err) == err # Nil

\* upgradeServiceImage line 64: actionAvailable("finishupgrade", serviceName)
Poll(w) ==
    /\ Alive
    /\ wpc[w] = "poll"
    /\ \E clientOk, fetchOk \in BOOLEAN :
          LET c == ctl[w]
              err == actionAvailable("finishupgrade", c.service, clientOk, fetchOk,
                                     SERVICEMAP, remote)
          IN  /\ ctl' = [ctl EXCEPT ![w] = [c EXCEPT !.lastGate = GateResult(err),
                                                     !.pollResult = GateResult(err)]]
              /\ wpc' = [wpc EXCEPT ![w] = IF PollAgain(err) THEN "sleep"
                                           ELSE "doFinishUpgrade"]
    /\ UNCHANGED << flags, IMAGETAG, SERVICEMAP, mainpc, serviceChan, k, i, WG,
                    outcomes, remote >>

\* faulty variant: after the sleep the upgrade is begun again
AfterSleep_Reissue == "doUpgrade"
\* upgradeServiceImage line 64: after the loop body the post statement runs
\* the gate check again
AfterSleep == "poll"

\* upgradeServiceImage lines 65-66: time.Sleep(1 * time.Second)
Sleep(w) ==
    /\ Alive
    /\ wpc[w] = "sleep"
    /\ wpc' = [wpc EXCEPT ![w] = AfterSleep]
    /\ UNCHANGED << flags, IMAGETAG, SERVICEMAP, mainpc, serviceChan, k, i, WG, ctl,
                    outcomes, remote >>

\* faulty variant: the result of the gate check is not looked at
FinishGateFails_Ignored(err) == FALSE
\* doFinishUpgrade line 94: if err := actionAvailable(...); err != nil
FinishGateFails(err) == err # Nil

\* doFinishUpgrade lines 94-109: check the gate, get a client, fetch the
\* service and issue ActionFinishupgrade; the value doFinishUpgrade returns
\* is dropped by upgradeServiceImage (line 68).  gateClientOk and gateFetchOk
\* are the outcomes of the gate's own client and fetch, clientOk and fetchOk
\* those of lines 98 and 105.
DoFinishUpgrade(w) ==
    /\ Alive
    /\ wpc[w] = "doFinishUpgrade"
    /\ \E gateClientOk, gateFetchOk, clientOk, fetchOk \in BOOLEAN :
          LET c == ctl[w]
              err == actionAvailable("finishupgrade", c.service, gateClientOk,
                                     gateFetchOk, SERVICEMAP, remote)
              lg == actionAvailableLogs(c.service, gateClientOk, gateFetchOk,
                                        SERVICEMAP)
              c1 == [c EXCEPT !.lastGate = GateResult(err)]
          IN  IF FinishGateFails(err)
              THEN EndJob(w, [c1 EXCEPT
                                 !.finishErr = upgradeError("finishupgrade", c.service, err),
                                 !.logged = lg,
                                 !.state = "Aborted"])
              ELSE IF ~clientOk
              THEN EndJob(w, [c1 EXCEPT
                                 !.finishErr = upgradeError("finishupgrade", c.service,
                                                            ErrClient),
                                 !.state = "Aborted"])
              ELSE IF MapGet(SERVICEMAP, c.service) = ""
              THEN EndJob(w, [c1 EXCEPT
                                 !.finishErr = actionAvailableError(UnboundAction, c.service),
                                 !.state = "Aborted"])
              ELSE IF ~fetchOk
              THEN EndJob(w, [c1 EXCEPT
                                 !.finishErr = upgradeError("finishupgrade", c.service,
                                                            ErrFetch),
                                 !.state = "Aborted"])
              ELSE /\ ctl' = [ctl EXCEPT ![w] =
                                 [c1 EXCEPT !.finishCalls = @ + 1,
                                            !.gateAtFinish = c1.lastGate]]
                   /\ wpc' = [wpc EXCEPT ![w] = "ActionFinishupgrade"]
                   /\ UNCHANGED outcomes
    /\ UNCHANGED << flags, IMAGETAG, SERVICEMAP, mainpc, serviceChan, k, i, WG, remote >>

\* client.Service.ActionFinishupgrade returns: the API finishes the upgrade
\* when the action is available, or the call fails
ActionFinishupgradeReturn(w) ==
    /\ Alive
    /\ wpc[w] = "ActionFinishupgrade"
    /\ LET c == ctl[w]
           id == MapGet(SERVICEMAP, c.service)
       IN  \/ /\ "finishupgrade" \in Actions(remote[id])
              /\ remote' = [remote EXCEPT ![id] = "active"]
              /\ EndJob(w, [c EXCEPT !.state = "Finished"])
           \/ /\ EndJob(w, [c EXCEPT
                               !.finishErr = upgradeError("finishupgrade", c.service,
                                                          ErrAction),
                               !.state = "Aborted"])
              /\ UNCHANGED remote
    /\ UNCHANGED << flags, IMAGETAG, SERVICEMAP, mainpc, serviceChan, k, i, WG >>

\* ------------------------------------------------------------- environment
\* Only a controller for the service reads or changes remote[id], so a move
\* of a service that no controller is working on is seen by the program only
\* once a controller for it has started: such moves are taken then.
WorkedOn(id) ==
    \E w \in Workers :
       ctl[w].state # "None" /\ MapGet(SERVICEMAP, ctl[w].service) = id

\* the orchestrator completes the rollout of an upgrade in progress
RemoteProgress(id) ==
    /\ Alive
    /\ WorkedOn(id)
    /\ remote[id] = "upgrading"
    /\ remote' = [remote EXCEPT ![id] = "upgraded"]
    /\ UNCHANGED << flags, IMAGETAG, SERVICEMAP, mainpc, serviceChan, k, i, WG, wpc,
                    ctl, outcomes >>

\* another user of the API starts or finishes an upgrade of the service
OutOfBand(id) ==
    /\ Alive
    /\ WorkedOn(id)
    /\ remote[id] \in {"active", "upgraded"}
    /\ remote' = [remote EXCEPT ![id] = IF remote[id] = "active" THEN "upgrading"
                                        ELSE "active"]
    /\ UNCHANGED << flags, IMAGETAG, SERVICEMAP, mainpc, serviceChan, k, i, WG, wpc,
                    ctl, outcomes >>

\* ---------------------------------------------------------- specification
Next ==
    \/ InitFn
    \/ Main
    \/ Enqueue
    \/ Close
    \/ Spawn
    \/ SpawnDone
    \/ Wait
    \/ \E w \in Workers : Receive(w)
    \/ \E w \in Workers : RangeEnd(w)
    \/ \E w \in Workers : WorkerReturn(w)
    \/ \E w \in Workers : CheckUpgrade(w)
    \/ \E w \in Workers : DoUpgrade(w)
    \/ \E w \in Workers : ActionUpgradeReturn(w)
    \/ \E w \in Workers : Poll(w)
    \/ \E w \in Workers : Sleep(w)
    \/ \E w \in Workers : DoFinishUpgrade(w)
    \/ \E w \in Workers : ActionFinishupgradeReturn(w)
    \/ \E id \in Ids : RemoteProgress(id)
    \/ \E id \in Ids : OutOfBand(id)

Spec == Init /\ [][Next]_vars

\* ------------------------------------------------------ views of the state
N == flags.parallelism
S == flags.services

\* the positions of a worker inside upgradeServiceImage
ControllerPcs == {"checkUpgrade", "doUpgrade", "ActionUpgrade", "poll", "sleep",
                  "doFinishUpgrade", "ActionFinishupgrade"}

\* the workers that are running a controller
Running == {w \in Workers : wpc[w] \in ControllerPcs}

\* the workers with a mutating remote call in flight
InFlight == {w \in Workers : wpc[w] \in {"ActionUpgrade", "ActionFinishupgrade"}}

\* the controllers that have returned, as <<worker, position>>
Done == UNION { {<<w, j>> : j \in DOMAIN outcomes[w]} : w \in Workers }
Outcome(d) == outcomes[d[1]][d[2]]

\* every controller record: the running ones and the returned ones
AllCtls == {ctl[w] : w \in Running} \cup {Outcome(d) : d \in Done}

\* how often name n occurs in a sequence of names
Count(n, seq) == Cardinality({j \in DOMAIN seq : seq[j] = n})

\* how many controllers were started for name n
Started(n) ==
    Cardinality({w \in Running : ctl[w].service = n})
    + Cardinality({d \in Done : Outcome(d).service = n})

\* the name is absent from the service directory
Unresolved(service) == MapGet(BuildMap(Listing, EmptyMap), service) = ""

\* -------------------------------------------------------------------- C1
\* C1: every entry of the service list is received from the queue by exactly
\* one worker and a controller is started for it exactly once.  At every
\* moment the entries sent so far are, name by name, those still queued plus
\* those a controller was started for; and when upgradeServices has returned
\* with N >= 1 a controller has run for every entry, none is left queued.
C1_ExactlyOnce ==
    /\ mainpc \in {"enqueue", "spawn", "wait", "returned"} =>
          \A n \in Names :
             Count(n, serviceChan.buf) + Started(n) = Count(n, SubSeq(S, 1, k - 1))
    /\ (mainpc = "returned" /\ N >= 1) =>
          /\ serviceChan.buf = << >>
          /\ \A n \in Names : Started(n) = Count(n, S)
          /\ Cardinality(Done) = Len(S)

C1_Witness ==
    /\ mainpc = "returned"
    /\ N = 2
    /\ S = <<svcA, svcA>>
    /\ Len(outcomes[1]) = 1
    /\ Len(outcomes[2]) = 1

\* -------------------------------------------------------------------- C2
\* C2: when upgradeServices has returned, every started worker has left its
\* loop (exactly the workers 1..N were started), no worker is running a
\* controller, and every job that was pulled ended in Finished or Aborted.
C2_JoinBarrier ==
    mainpc = "returned" =>
       /\ \A w \in Workers :
             /\ wpc[w] = (IF w <= N THEN "exited" ELSE "unborn")
             /\ ctl[w] = NoCtl
       /\ Running = {}
       /\ WG = 0
       /\ \A d \in Done : Outcome(d).state \in Terminal

C2_Witness ==
    /\ mainpc = "returned"
    /\ N = 2
    /\ wpc[1] = "exited"
    /\ wpc[2] = "exited"
    /\ \E d \in Done : Outcome(d).state = "Finished"
    /\ \E d \in Done : Outcome(d).state = "Aborted"

\* -------------------------------------------------------------------- C3
\* the steps of the program itself, without those of the remote API
ProgramNext ==
    \/ InitFn \/ Main \/ Enqueue \/ Close \/ Spawn \/ SpawnDone \/ Wait
    \/ \E w \in Workers :
          \/ Receive(w) \/ RangeEnd(w) \/ WorkerReturn(w) \/ CheckUpgrade(w)
          \/ DoUpgrade(w) \/ ActionUpgradeReturn(w) \/ Poll(w) \/ Sleep(w)
          \/ DoFinishUpgrade(w) \/ ActionFinishupgradeReturn(w)

\* the workers that have exited without having pulled a job
IdleExits == {w \in Workers : wpc[w] = "exited" /\ outcomes[w] = << >>}

\* C3: with more workers than jobs (N > |S|) no worker is ever blocked on the
\* queue (a worker at the receive finds a job or finds the queue closed), the
\* program can always take a step until upgradeServices returns, and when it
\* has returned at least N - |S| workers have exited without pulling a job.
C3_ExcessWorkersExit ==
    N > Len(S) =>
       /\ \A w \in Workers :
             wpc[w] = "range" => (CanRecv(serviceChan) \/ RangeEnds(serviceChan))
       /\ Alive => ENABLED ProgramNext
       /\ mainpc = "returned" => Cardinality(IdleExits) >= N - Len(S)

C3_Witness ==
    /\ mainpc = "returned"
    /\ N = 2
    /\ Len(S) = 1
    /\ Cardinality(IdleExits) = 1
    /\ Cardinality(Done) = 1

\* -------------------------------------------------------------------- C4
\* C4: the number of controllers executing, and so the number of
\* begin-upgrade / finish-upgrade calls in flight, never exceeds the
\* parallelism N (none executes when N is zero or negative).
C4_AtMostNControllers ==
    /\ Cardinality(Running) <= (IF N > 0 THEN N ELSE 0)
    /\ Cardinality(InFlight) <= (IF N > 0 THEN N ELSE 0)

C4_Witness ==
    /\ N = 2
    /\ Cardinality(Running) = 2
    /\ Cardinality(InFlight) = 2

\* -------------------------------------------------------------------- C5
\* C5: for every service identifier at most one of the mutating calls
\* begin-upgrade and finish-upgrade is in flight at a time.
C5_OneCallPerService ==
    \A id \in Ids :
       Cardinality({w \in InFlight : MapGet(SERVICEMAP, ctl[w].service) = id}) <= 1

\* -------------------------------------------------------------------- C6
\* C6: a controller whose service name the directory does not hold never has
\* begin-upgrade or finish-upgrade invoked, never gets past the first gate
\* check, and ends Aborted with the gate's error; and the other jobs are
\* still processed: when upgradeServices has returned with N >= 1, a
\* controller has ended for every entry of the list.
C6_UnknownServiceAborts ==
    /\ \A w \in Running :
          Unresolved(ctl[w].service) =>
             /\ wpc[w] = "checkUpgrade"
             /\ ctl[w].beginCalls = 0
             /\ ctl[w].finishCalls = 0
    /\ \A d \in Done :
          Unresolved(Outcome(d).service) =>
             /\ Outcome(d).state = "Aborted"
             /\ Outcome(d).gateErr = actionAvailableError("upgrade", Outcome(d).service)
             /\ Outcome(d).beginCalls = 0
             /\ Outcome(d).finishCalls = 0
    /\ (mainpc = "returned" /\ N >= 1) => Cardinality(Done) = Len(S)

C6_Witness ==
    /\ mainpc = "returned"
    /\ N = 1
    /\ S = <<svcC, svcA>>
    /\ Len(outcomes[1]) = 2
    /\ outcomes[1][1].service = svcC
    /\ outcomes[1][1].state = "Aborted"
    /\ outcomes[1][2].state = "Finished"

\* -------------------------------------------------------------------- C7
\* C7: once doUpgrade has returned an error the controller is Aborted: it
\* makes no finalize-availability check and issues no finish-upgrade call.
C7_NoFinishAfterFailedBegin ==
    \A c \in AllCtls :
       c.upgradeErr # Nil =>
          /\ c.state = "Aborted"
          /\ c.lastGate = "none"
          /\ c.finishCalls = 0

\* begin-upgrade was invoked and failed, and the controller has ended
C7_Witness ==
    \E d \in Done :
       /\ Outcome(d).beginCalls = 1
       /\ Outcome(d).upgradeErr # Nil
       /\ Outcome(d).state = "Aborted"

\* -------------------------------------------------------------------- C8
\* C8: whenever the remote finish-upgrade action has been invoked, a gate
\* check of "finishupgrade" preceded it in that job and the latest one before
\* the invocation reported the action available.
C8_FinishOnlyAfterGate ==
    /\ \A c \in AllCtls : c.finishCalls > 0 => c.gateAtFinish = "available"
    /\ \A w \in Workers :
          wpc[w] = "ActionFinishupgrade" =>
             /\ ctl[w].finishCalls > 0
             /\ ctl[w].lastGate = "available"

\* finish-upgrade has been invoked and is in flight
C8_Witness ==
    \E w \in Workers :
       /\ wpc[w] = "ActionFinishupgrade"
       /\ ctl[w].finishCalls = 1
       /\ ctl[w].gateAtFinish = "available"

\* -------------------------------------------------------------------- C9
\* the tag with a leading colon added only when it has none
IsNormalizedTag(t, tag) ==
    IF tag # << >> /\ Head(tag) = ":" THEN t = tag ELSE t = <<":">> \o tag

\* C9 as stated: the image reference submitted with begin-upgrade is
\* registryPrefix + serviceName + normalizedTag, with start-first set.
C9_ImageReference_AsStated ==
    \A c \in AllCtls :
       c.beginCalls > 0 =>
          /\ c.payload.StartFirst
          /\ \E t \in {flags.tag, <<":">> \o flags.tag} :
                /\ IsNormalizedTag(t, flags.tag)
                /\ c.payload.ImageUuid = flags.prefix \o c.service \o t

\* C9 as amended: the image reference submitted with begin-upgrade is
\* "docker:" + registryPrefix + serviceName + normalizedTag, with start-first
\* set.
C9_ImageReference ==
    \A c \in AllCtls :
       c.beginCalls > 0 =>
          /\ c.payload.StartFirst
          /\ \E t \in {flags.tag, <<":">> \o flags.tag} :
                /\ IsNormalizedTag(t, flags.tag)
                /\ c.payload.ImageUuid =
                      <<"d", "o", "c", "k", "e", "r", ":">> \o flags.prefix \o c.service \o t

\* begin-upgrade invoked for svcA with prefix "r/" and tag "v3"
C9_Witness ==
    \E w \in Workers :
       /\ wpc[w] = "ActionUpgrade"
       /\ flags.prefix = <<"r", "/">>
       /\ flags.tag = <<"v", "3">>
       /\ ctl[w].service = svcA
       /\ ctl[w].payload.ImageUuid =
             <<"d", "o", "c", "k", "e", "r", ":", "r", "/", "s", "A", ":", "v", "3">>

\* ------------------------------------------------------------------- C10
\* the remote begin-upgrade invocation of controller record c has failed
BeginInvocationFailed(c) == c.beginCalls > 0 /\ c.upgradeErr # Nil

\* C10 as stated: a failed remote begin-upgrade invocation ends the
\* controller Aborted with an upgradeError whose Action is "upgrade", whose
\* Service is the job's name and whose Err is the remote error.
C10_BeginError_AsStated ==
    \A c \in AllCtls :
       BeginInvocationFailed(c) =>
          /\ c.state = "Aborted"
          /\ c.upgradeErr = upgradeError("upgrade", c.service, ErrAction)

\* C10 as amended: a failed remote begin-upgrade invocation ends the
\* controller Aborted with an upgradeError whose Action is
\* "client.Service.ActionUpgrade", whose Service is the job's name and whose
\* Err is the remote error.
C10_BeginError ==
    \A c \in AllCtls :
       BeginInvocationFailed(c) =>
          /\ c.state = "Aborted"
          /\ c.upgradeErr.type = "upgradeError"
          /\ c.upgradeErr.Action = "client.Service.ActionUpgrade"
          /\ c.upgradeErr.Service = c.service
          /\ c.upgradeErr.Err = ErrAction

C10_Witness ==
    \E d \in Done :
       /\ BeginInvocationFailed(Outcome(d))
       /\ Outcome(d).service = svcB
       /\ Outcome(d).logged

\* ------------------------------------------------------------------- C11
\* C11: every per-service failure is reported through the log before the
\* controller terminates: every controller that has ended Aborted (failed
\* precondition, failed begin-upgrade, failed finish-upgrade) left a log
\* report of the failure that ended it.
C11_FailuresLogged ==
    \A d \in Done : Outcome(d).state = "Aborted" => Outcome(d).logged

\* ------------------------------------------------------------------- C12
\* the workers that have had a controller end Aborted
AbortedBy == {w \in Workers : \E j \in DOMAIN outcomes[w] :
                                 outcomes[w][j].state = "Aborted"}

\* C12: an Aborted controller does not stop its worker.  A worker that has
\* had an aborted job is back at the receive, is running a later job, or has
\* left its loop only because the queue was closed and drained; and when
\* upgradeServices has returned with N >= 1 every entry of the list has
\* reached Finished or Aborted.
C12_AbortKeepsWorker ==
    /\ \A w \in AbortedBy :
          /\ wpc[w] \in ControllerPcs \cup {"range", "return", "exited"}
          /\ wpc[w] \in {"return", "exited"} => RangeEnds(serviceChan)
    /\ (mainpc = "returned" /\ N >= 1) =>
          /\ Cardinality(Done) = Len(S)
          /\ \A d \in Done : Outcome(d).state \in Terminal

\* worker 1 had its first job aborted at finish-upgrade and finished a second
C12_Witness ==
    /\ mainpc = "returned"
    /\ N = 1
    /\ S = <<svcA, svcB>>
    /\ Len(outcomes[1]) = 2
    /\ outcomes[1][1].state = "Aborted"
    /\ outcomes[1][1].finishErr # Nil
    /\ outcomes[1][2].state = "Finished"

\* ------------------------------------------------------------------- C13
\* init() has run and createServiceMap returned an error: the directory is
\* still empty (a successful build holds every listed service)
DirectoryFailed == mainpc # "init" /\ SERVICEMAP = EmptyMap

\* C13: when building the service directory fails, the process terminates
\* before the dispatcher starts: the queue is never made and nothing is
\* enqueued, no worker is started, no controller runs (no gate check,
\* begin-upgrade or finish-upgrade), the remote services are untouched and
\* the program has no further step.
C13_FatalBeforeDispatch ==
    DirectoryFailed =>
       /\ mainpc = "fatal"
       /\ serviceChan = MakeChan(0)
       /\ k = 0
       /\ i = 0
       /\ WG = 0
       /\ \A w \in Workers :
             /\ wpc[w] = "unborn"
             /\ ctl[w] = NoCtl
             /\ outcomes[w] = << >>
       /\ \A id \in Ids : remote[id] = "active"
       /\ ~ENABLED ProgramNext

\* init() has normalised the tag and createServiceMap has failed
C13_Witness ==
    /\ mainpc = "fatal"
    /\ SERVICEMAP = EmptyMap
    /\ IMAGETAG = <<":", "v", "3">>
    /\ Len(S) = 2
    /\ N = 2

\* ------------------------------------------------------------------- C15
\* one step seen from a worker that is in the polling loop (at the gate
\* check of line 64 or in the sleep of line 65)
PollingStep(w) ==
    /\ (wpc[w] = "poll" /\ wpc'[w] # "poll") =>
          IF ctl'[w].lastGate = "available"
          THEN wpc'[w] = "doFinishUpgrade"
          ELSE wpc'[w] = "sleep" /\ ctl'[w].lastGate = "unavailable"
    /\ (wpc[w] = "sleep" /\ wpc'[w] # "sleep") => wpc'[w] = "poll"
    /\ wpc[w] \in {"poll", "sleep"} =>
          /\ ctl[w].beginCalls = 1
          /\ ctl[w].upgradeErr = Nil
          /\ ctl'[w].state = "AwaitingFinish"
          /\ ctl'[w].finishCalls = 0
          /\ outcomes'[w] = outcomes[w]
          /\ mainpc' \notin {"returned", "fatal"}

\* C15: after begin-upgrade has succeeded the controller leaves the polling
\* loop only on a gate check that reports "finishupgrade" available; every
\* unavailable result leads to the sleep and from there to another check,
\* however many checks came before; and as long as the controller is in the
\* loop it has not terminated and upgradeServices has not returned.
C15_PollUntilAvailable == [][\A w \in Workers : PollingStep(w)]_vars

\* a controller back at the gate check after an unavailable result
C15_Witness ==
    \E w \in Workers :
       /\ wpc[w] = "poll"
       /\ ctl[w].lastGate = "unavailable"
       /\ ctl[w].beginCalls = 1
       /\ mainpc = "wait"

\* ------------------------------------------------------------------- C16
\* the error doFinishUpgrade returns when its own gate check fails
FinishGateError(service) ==
    upgradeError("finishupgrade", service, actionAvailableError("finishupgrade", service))

\* C16 as stated: once the polling loop has observed "finishupgrade"
\* available, the controller invokes the remote finish-upgrade action, also
\* when the availability changes between the poll and the invocation step.
C16_InvokesAfterPoll_AsStated ==
    \A d \in Done :
       Outcome(d).pollResult = "available" => Outcome(d).finishCalls = 1

\* C16 as amended: once the polling loop has observed "finishupgrade"
\* available the controller calls doFinishUpgrade, which checks the gate once
\* more and invokes the remote action exactly when that check reports
\* available and the client and the service are obtained; otherwise it
\* returns an upgradeError for "finishupgrade" without invoking and the
\* controller ends Aborted.  A change after that check does not stop the
\* invocation: the call is made and its rejection ends the controller
\* Aborted.
C16_InvokesAfterPoll ==
    /\ \A w \in Workers :
          wpc[w] = "doFinishUpgrade" =>
             ctl[w].pollResult = "available" /\ ctl[w].finishCalls = 0
    /\ \A d \in Done :
          LET c == Outcome(d)
          IN  c.pollResult = "available" =>
                 IF c.finishCalls = 0
                 THEN /\ c.state = "Aborted"
                      /\ IF c.lastGate = "unavailable"
                         THEN c.finishErr = FinishGateError(c.service)
                         ELSE c.finishErr \in
                                 {upgradeError("finishupgrade", c.service, ErrClient),
                                  upgradeError("finishupgrade", c.service, ErrFetch)}
                 ELSE /\ c.finishCalls = 1
                      /\ c.gateAtFinish = "available"
                      /\ \/ c.state = "Finished" /\ c.finishErr = Nil
                         \/ /\ c.state = "Aborted"
                            /\ c.finishErr =
                                  upgradeError("finishupgrade", c.service, ErrAction)

\* the poll saw the action available, the check inside doFinishUpgrade did
\* not, and the controller ended without invoking finish-upgrade
C16_Witness ==
    \E d \in Done :
       /\ Outcome(d).pollResult = "available"
       /\ Outcome(d).lastGate = "unavailable"
       /\ Outcome(d).finishCalls = 0
       /\ Outcome(d).finishErr = FinishGateError(Outcome(d).service)

\* ------------------------------------------------------------------- C17
\* the workers that have been started
StartedWorkers == {w \in Workers : wpc[w] # "unborn"}

\* C17: the queue's capacity is the service count and the send of every
\* entry finds room, so no enqueue blocks; once a worker has been started
\* the queue is closed and every entry has been sent, so no job is added
\* afterwards; and no worker at the receive finds the queue open and empty.
C17_QueueDiscipline ==
    /\ mainpc \in {"enqueue", "spawn", "wait", "returned"} =>
          serviceChan.cap = Len(S)
    /\ (mainpc = "enqueue" /\ k <= Len(S)) =>
          /\ CanSend(serviceChan)
          /\ serviceChan.buf = SubSeq(S, 1, k - 1)
          /\ ENABLED Enqueue
    /\ StartedWorkers # {} =>
          /\ serviceChan.closed
          /\ k = Len(S) + 1
          /\ mainpc \in {"spawn", "wait", "returned"}
          /\ ~ENABLED Enqueue
          /\ Len(serviceChan.buf) + Cardinality(Running) + Cardinality(Done) = Len(S)
    /\ \A w \in Workers :
          wpc[w] = "range" => ~(serviceChan.buf = << >> /\ ~serviceChan.closed)

\* the first worker has been started and finds two jobs in the closed queue
C17_Witness ==
    /\ mainpc = "spawn"
    /\ i = 1
    /\ wpc[1] = "range"
    /\ serviceChan.closed
    /\ serviceChan.cap = 2
    /\ serviceChan.buf = <<svcA, svcB>>

\* ------------------------------------------------------------------- C18
\* the actions of the API's service resource
ActionNames == {"upgrade", "cancelupgrade", "finishupgrade", "rollback"}

\* the name resolves, the client and the service are obtained, and the
\* action is in the service's action set as it is now
GateAvailable(action, service, clientOk, fetchOk) ==
    /\ clientOk
    /\ service \in DOMAIN SERVICEMAP
    /\ fetchOk
    /\ action \in Actions(remote[SERVICEMAP[service]])

\* what actionAvailable answers in the current state, for every input
GateTable ==
    \A action \in ActionNames, service \in Names, clientOk, fetchOk \in BOOLEAN :
       LET err == actionAvailable(action, service, clientOk, fetchOk,
                                  SERVICEMAP, remote)
       IN  IF GateAvailable(action, service, clientOk, fetchOk)
           THEN err = Nil
           ELSE err = actionAvailableError(action, service)

\* a step of worker w that is a gate check of upgradeServiceImage (line 55
\* or line 64)
GateStep(w) ==
    /\ (wpc[w] \in {"checkUpgrade", "poll"} /\ wpc'[w] # wpc[w]) =>
          /\ remote' = remote
          /\ SERVICEMAP' = SERVICEMAP
    /\ (wpc[w] = "checkUpgrade" /\ wpc'[w] = "doUpgrade") =>
          \E clientOk, fetchOk \in BOOLEAN :
             GateAvailable("upgrade", ctl[w].service, clientOk, fetchOk)
    /\ (wpc[w] = "checkUpgrade" /\ wpc'[w] # "checkUpgrade" /\ wpc'[w] # "doUpgrade") =>
          /\ Len(outcomes'[w]) = Len(outcomes[w]) + 1
          /\ outcomes'[w][Len(outcomes'[w])].gateErr =
                actionAvailableError("upgrade", ctl[w].service)
    /\ (wpc[w] = "poll" /\ wpc'[w] = "doFinishUpgrade") =>
          \E clientOk, fetchOk \in BOOLEAN :
             GateAvailable("finishupgrade", ctl[w].service, clientOk, fetchOk)

\* C18: actionAvailable reports an action available exactly when the client
\* is obtained, the service name resolves, the service is fetched and the
\* action is in its current action set, and otherwise returns the
\* unavailable error for that action and service; and a gate check changes
\* neither the remote service state nor the service directory.
C18_GateSemantics == []GateTable /\ [][\A w \in Workers : GateStep(w)]_vars

\* a gate check has reported "finishupgrade" unavailable for a service that
\* is still upgrading, and the service was left as it was
C18_Witness ==
    \E w \in Workers :
       /\ wpc[w] = "sleep"
       /\ ctl[w].pollResult = "unavailable"
       /\ ctl[w].service = svcB
       /\ remote["1s2"] = "upgrading"

\* ------------------------------------------------------------------- C19
\* C19: within one job begin-upgrade and finish-upgrade are each invoked at
\* most once.  The call counts of every controller follow its position (none
\* before doUpgrade issues its call, one begin-upgrade from then on, one
\* finish-upgrade once doFinishUpgrade has issued it), a controller that is
\* still running has no failed mutating call behind it, and a failed call
\* leaves the controller ended with the count it had.
C19_AtMostOnce ==
    /\ \A c \in AllCtls :
          /\ c.beginCalls \in {0, 1}
          /\ c.finishCalls \in {0, 1}
          /\ c.finishCalls = 1 => c.beginCalls = 1
    /\ \A w \in Running :
          /\ ctl[w].upgradeErr = Nil
          /\ ctl[w].finishErr = Nil
          /\ ctl[w].beginCalls =
                (IF wpc[w] \in {"checkUpgrade", "doUpgrade"} THEN 0 ELSE 1)
          /\ ctl[w].finishCalls =
                (IF wpc[w] = "ActionFinishupgrade" THEN 1 ELSE 0)
    /\ \A d \in Done :
          /\ Outcome(d).upgradeErr # Nil => Outcome(d).finishCalls = 0
          /\ Outcome(d).state = "Finished" =>
                Outcome(d).beginCalls = 1 /\ Outcome(d).finishCalls = 1

\* a job whose one finish-upgrade call was rejected and not repeated
C19_Witness ==
    \E d \in Done :
       /\ Outcome(d).beginCalls = 1
       /\ Outcome(d).finishCalls = 1
       /\ Outcome(d).finishErr = upgradeError("finishupgrade", Outcome(d).service, ErrAction)
       /\ Outcome(d).state = "Aborted"

\* ------------------------------------------------------------------- C20
\* C20: with a parallelism of 0 or less upgradeServices starts no worker and
\* returns without waiting: no controller ever runs (no gate check, no
\* begin-upgrade, no finish-upgrade, the remote services stay as they were),
\* the spawn loop ends at once, WG.Wait does not block, and at the return
\* every entry of the list is still in the closed queue.
C20_NoWorkers ==
    N <= 0 =>
       /\ \A w \in Workers :
             /\ wpc[w] = "unborn"
             /\ ctl[w] = NoCtl
             /\ outcomes[w] = << >>
       /\ WG = 0
       /\ i = 0
       /\ \A id \in Ids : remote[id] = "active"
       /\ mainpc = "spawn" => (ENABLED SpawnDone /\ ~ENABLED Spawn)
       /\ mainpc = "wait" => ENABLED Wait
       /\ mainpc \in {"spawn", "wait", "returned"} =>
             serviceChan.buf = S /\ serviceChan.closed

\* upgradeServices has returned with parallelism 0 and both jobs still queued
C20_Witness ==
    /\ mainpc = "returned"
    /\ N = 0
    /\ serviceChan.buf = <<svcA, svcB>>
    /\ serviceChan.closed
    /\ Done = {}

\* ------------------------------------------------------------------- C14
\* the steps of the main goroutine
MainNext == InitFn \/ Main \/ Enqueue \/ Close \/ Spawn \/ SpawnDone \/ Wait

\* the steps of worker w
WorkerNext(w) ==
    \/ Receive(w) \/ RangeEnd(w) \/ WorkerReturn(w) \/ CheckUpgrade(w)
    \/ DoUpgrade(w) \/ ActionUpgradeReturn(w) \/ Poll(w) \/ Sleep(w)
    \/ DoFinishUpgrade(w) \/ ActionFinishupgradeReturn(w)

\* the gate check of line 64 reports "finishupgrade" available
PollAvailable(w) == Poll(w) /\ ctl'[w].pollResult = "available"

\* another user of the API starts an upgrade of a service that is active; an
\* upgrade that is ready to be finished is left to the program
OutOfBandStart(id) == remote[id] = "active" /\ OutOfBand(id)

\* the program with a remote API that keeps "finishupgrade" available once an
\* upgrade is ready to be finished
LiveNext ==
    \/ MainNext
    \/ \E w \in Workers : WorkerNext(w)
    \/ \E id \in Ids : RemoteProgress(id)
    \/ \E id \in Ids : OutOfBandStart(id)

\* The goroutines are scheduled fairly and every remote call returns (WF of
\* the main goroutine's and of each worker's steps); an upgrade in progress
\* becomes ready to be finished (WF of RemoteProgress); and a gate check that
\* is made again and again while the action is available does not fail every
\* time (SF of PollAvailable).
LiveFairness ==
    /\ WF_vars(MainNext)
    /\ \A w \in Workers : WF_vars(WorkerNext(w)) /\ SF_vars(PollAvailable(w))
    /\ \A id \in Ids : WF_vars(RemoteProgress(id))

\* the image flags play no part in whether a run ends: one pair is taken
LiveInit == Init /\ flags.tag = <<"v", "3">>

LiveSpec == LiveInit /\ [][LiveNext]_vars /\ LiveFairness

\* upgradeServices has returned and a controller has ended, Finished or
\* Aborted, for every entry of the service list
AllJobsTerminal ==
    /\ mainpc = "returned"
    /\ Cardinality(Done) = Len(S)
    /\ \A d \in Done : Outcome(d).state \in Terminal
    /\ serviceChan.buf = << >>

\* C14 as stated: under fair scheduling, with every remote call returning and
\* "finishupgrade" becoming and staying available after a successful
\* begin-upgrade, once the dispatcher is called every job eventually reaches
\* Finished or Aborted and the dispatcher returns.
C14_Terminates_AsStated == (mainpc = "main") ~> AllJobsTerminal

\* C14 as amended: the same, when the parallelism is at least 1.
C14_Terminates == (mainpc = "main" /\ N >= 1) ~> AllJobsTerminal

\* upgradeServices has returned after both jobs of two workers Finished
C14_Witness ==
    /\ AllJobsTerminal
    /\ N = 2
    /\ Len(S) = 2
    /\ \A d \in Done : Outcome(d).state = "Finished"

====
